---- MODULE Spec2Model ----
(***************************************************************************)
(* Model of rdga_4k (src/src/rdga_4k/__init__.py): the rate partitioner    *)
(* get_rate and the two dataset generators catbird and canard.             *)
(*                                                                         *)
(* Numbers that are floats in the program (lmbd, eps, uniform samples,     *)
(* shape parameters, CDF values) are kept in permille (1000 = 1.0).        *)
(* A Python value whose type the code asserts is a record [t, v] holding   *)
(* its type name and its numeric value.                                    *)
(***************************************************************************)
EXTENDS Integers, Sequences, FiniteSets, TLC

VARIABLES
    \* ---- get_rate ----
    N, k, n_min,        \* arguments
    rate_c, resto, jr,  \* declining plan under construction, budget, loop variable j
    rate_s,             \* uniform plan
    rpc,                \* position in get_rate: "idle", "start", "loop", "done", "failed"
    rret,               \* returned value, <<>> while nothing was returned
    \* ---- catbird / canard ----
    fn,                 \* the generator called: "catbird" or "canard" ("none": get_rate runs)
    n_feat, feat_sig, n_cat, rate, lmbd, eps, random_state,   \* arguments
    rng,                \* the resolved random source: its stream s and the position pos in it
    X, y, q,            \* rows, labels, label counter
    i, j,               \* index of the current cluster, examples generated for it
    W, idx, a, b,       \* structural parameters of the current cluster
    A_W_norm, noise,    \* catbird: projected values and Bernoulli draws of the last example
    samples,            \* canard: Beta samples of the last example
    origin,             \* for each row of X, the loop index of the cluster that generated it
    log,                \* the draws made by this call, in order: cluster, phase, example
    gpc,                \* position: "idle", "start", "cluster", "example", "done", "failed"
    err,                \* the error raised, "" when none
    gret,               \* returned value, <<>> while nothing was returned
    call,               \* 1 for the first invocation, 2 for the repeated one
    first               \* outcome of the first invocation, kept for the repeated one

rvars == <<N, k, n_min, rate_c, resto, jr, rate_s, rpc, rret>>
gargs == <<fn, n_feat, feat_sig, n_cat, rate, lmbd, eps, random_state>>
gvars == <<fn, n_feat, feat_sig, n_cat, rate, lmbd, eps, random_state, rng, X, y, q,
           i, j, W, idx, a, b, A_W_norm, noise, samples, origin, log, gpc, err, gret, call, first>>
vars == <<rvars, gvars>>

\* ---------------------------------------------------------------------
\* Bounds
\* ---------------------------------------------------------------------
MaxN == 10
MaxK == 9
MaxMin == 5
MaxFeat == 2
MaxCat == 3
MaxClusters == 2
MaxRate == 2
MaxSeed == 1
StreamPeriod == 4
SampleDen == 6

\* ---------------------------------------------------------------------
\* Helpers on sequences
\* ---------------------------------------------------------------------
RECURSIVE Sum(_)
Sum(s) == IF s = <<>> THEN 0 ELSE s[1] + Sum(Tail(s))

RECURSIVE Min(_)
Min(s) == IF Len(s) = 1 THEN s[1]
          ELSE LET m == Min(Tail(s)) IN IF s[1] <= m THEN s[1] ELSE m

RECURSIVE Max(_)
Max(s) == IF Len(s) = 1 THEN s[1]
          ELSE LET m == Max(Tail(s)) IN IF s[1] >= m THEN s[1] ELSE m

PyInt(v) == [t |-> "int", v |-> v]
PyFloat(v) == [t |-> "float", v |-> v]

\* ---------------------------------------------------------------------
\* get_rate(N, k, n_min)
\* ---------------------------------------------------------------------

\* int(x / d): true division, then truncation toward zero
IntDivCeil(x, d) == IF x >= 0 THEN (x + d - 1) \div d ELSE -((-x) \div d)
IntDiv(x, d) == IF x >= 0 THEN x \div d ELSE -((-x) \div d)

\* resto = N - sum(rate_c)
NextRestoLast(NN, rc) == NN - rc[Len(rc)]
NextResto(NN, rc) == NN - Sum(rc)

\* rate_s = [int(sum(rate_c)/k) for i in range(k)]
UniformPlanRounded(rc, kk) == [t \in 1..kk |-> IntDivCeil(Sum(rc), kk)]
UniformPlan(rc, kk) == [t \in 1..kk |-> IntDiv(Sum(rc), kk)]

\* Python's `u and v` on integers: u when u is falsy (0), else v
AndPyFirst(u, v) == u
AndPy(u, v) == IF u = 0 THEN u ELSE v

\* rate = [rate_s, rate_c]
RateResultSwapped(rs, rc) == <<rc, rs>>
RateResult(rs, rc) == <<rs, rc>>

RateArgs == {PyInt(v) : v \in 0..MaxN} \cup {PyFloat(2000)}
KArgs == {PyInt(v) : v \in 0..MaxK} \cup {PyFloat(2000)}

InitRate ==
    /\ N \in RateArgs
    /\ k \in KArgs
    /\ n_min \in -1..MaxMin
    /\ rate_c = <<>>
    /\ resto = 0
    /\ jr = 0
    /\ rate_s = <<>>
    /\ rpc = "start"
    /\ rret = <<>>

\* lines 159-163: the two assertions, then rate_c = [], resto = N
RateCheck ==
    /\ rpc = "start"
    /\ IF /\ N.t = "int" /\ N.v > 1
          /\ k.t = "int" /\ k.v > 1
       THEN /\ rpc' = "loop"
            /\ resto' = N.v
            /\ jr' = 2
       ELSE /\ rpc' = "failed"
            /\ UNCHANGED <<resto, jr>>
    /\ UNCHANGED <<N, k, n_min, rate_c, rate_s, rret>>

\* lines 164-166: one iteration of `for j in range(2, k+2)`
RateLoop ==
    /\ rpc = "loop"
    /\ jr < k.v + 2
    /\ LET rc == Append(rate_c, IntDiv(resto, jr)) IN
         /\ rate_c' = rc
         /\ resto' = NextResto(N.v, rc)
    /\ jr' = jr + 1
    /\ UNCHANGED <<N, k, n_min, rate_s, rpc, rret>>

\* lines 167-172: the uniform plan, the postcondition assertion, the return
RateFinish ==
    /\ rpc = "loop"
    /\ jr >= k.v + 2
    /\ LET rs == UniformPlan(rate_c, k.v) IN
         /\ rate_s' = rs
         /\ IF AndPy(Min(rs), Min(rate_c)) >= n_min
            THEN /\ rpc' = "done"
                 /\ rret' = RateResult(rs, rate_c)
            ELSE /\ rpc' = "failed"
                 /\ rret' = <<>>
    /\ UNCHANGED <<N, k, n_min, rate_c, resto, jr>>

\* ---------------------------------------------------------------------
\* The random source: numpy.random.RandomState
\* ---------------------------------------------------------------------
\* A source is a fixed stream of bits, of period StreamPeriod, and a position
\* in it. Every method reads the bits at the position and advances it.

RECURSIVE Pow2(_)
Pow2(n) == IF n = 0 THEN 1 ELSE 2 * Pow2(n - 1)

Streams == 0..(Pow2(StreamPeriod) - 1)

Bit(s, p) == (s \div Pow2(p % StreamPeriod)) % 2

\* RandomState(seed): the stream is a function of the seed, read from its start
SeedStream(seed) == (seed * 5 + 3) % Pow2(StreamPeriod)

\* one standard-normal scalar
Normal(s, p) == IF Bit(s, p) = 1 THEN 1 ELSE -1

\* random_state.normal(0, 1, (r, c)): r*c scalars, row by row
NormalMatrix(s, p, r, c) ==
    [x \in 1..r |-> [z \in 1..c |-> Normal(s, p + (x - 1) * c + (z - 1))]]

\* one uniform sample in [0, 1), permille
Uniform(s, p) == (2 * Bit(s, p) + Bit(s, p + 1)) * 250

\* random_state.binomial(1, eps, n): n Bernoulli(eps) draws
Binomial(s, p, e, n) == [x \in 1..n |-> IF Uniform(s, p + 2 * (x - 1)) < e THEN 1 ELSE 0]

RemoveAt(seq, r) == [x \in 1..(Len(seq) - 1) |-> IF x < r THEN seq[x] ELSE seq[x + 1]]

\* random_state.choice(n, size, replace=False): distinct indices of 0..n-1, in drawn order
RECURSIVE ChoiceFrom(_, _, _, _)
ChoiceFrom(s, p, pool, size) ==
    IF size <= 0 THEN <<>>
    ELSE LET r == ((2 * Bit(s, p) + Bit(s, p + 1)) % Len(pool)) + 1
         IN  <<pool[r]>> \o ChoiceFrom(s, p + 2, RemoveAt(pool, r), size - 1)

Choice(s, p, n, size) == ChoiceFrom(s, p, [x \in 1..n |-> x - 1], size)

\* random_state.beta(a, b, 1)[0]: a sample of the open interval (0, 1), as the
\* numerator of a fraction over SampleDen
Beta(s, p) == ((4 * Bit(s, p) + 2 * Bit(s, p + 1) + Bit(s, p + 2)) % (SampleDen - 1)) + 1

\* ---------------------------------------------------------------------
\* Arguments of the generators
\* ---------------------------------------------------------------------
SeqsUpTo(S, n) == UNION {[1..m -> S] : m \in 0..n}

NFeatArgs == {PyInt(v) : v \in 1..MaxFeat} \cup {PyFloat(2000)}
NCatArgs == {PyInt(v) : v \in 1..MaxCat} \cup {PyFloat(2000)}
\* counts of significant features: the smallest, the largest n_feat and one above it
FeatSigArgs == SeqsUpTo({1, MaxFeat, MaxFeat + 1}, MaxClusters)
\* positive example counts: the smallest and the largest
RateLists == SeqsUpTo({1, MaxRate}, MaxClusters)
CatbirdLmbdArgs == {PyFloat(-100), PyFloat(800), PyFloat(1200), PyInt(1)}
CanardLmbdArgs == {PyInt(0), PyInt(2), PyFloat(10000)}
CatbirdEpsArgs == {PyFloat(-100), PyFloat(0), PyFloat(500), PyFloat(1500), PyInt(0)}
CanardEpsArgs == {PyFloat(-100), PyFloat(0), PyFloat(500), PyFloat(1000), PyFloat(1500)}
RandomStateArgs == {[t |-> "NoneType", v |-> 0], [t |-> "RandomState", v |-> 0],
                    [t |-> "str", v |-> 0]} \cup {PyInt(v) : v \in 0..MaxSeed}

NoRng == [s |-> 0, pos |-> 0]
NoFirst == [pc |-> "", err |-> "", ret |-> <<>>]

GenLocalsInit ==
    /\ rng = NoRng
    /\ X = <<>> /\ y = <<>> /\ q = 0
    /\ i = 0 /\ j = 0
    /\ W = <<>> /\ idx = <<>> /\ a = <<>> /\ b = <<>>
    /\ A_W_norm = <<>> /\ noise = <<>> /\ samples = <<>>
    /\ origin = <<>>
    /\ log = <<>>
    /\ err = ""
    /\ gret = <<>>
    /\ call = 1
    /\ first = NoFirst

RateIdle ==
    /\ N = PyInt(0) /\ k = PyInt(0) /\ n_min = 0
    /\ rate_c = <<>> /\ resto = 0 /\ jr = 0 /\ rate_s = <<>>
    /\ rpc = "idle" /\ rret = <<>>

\* ---------------------------------------------------------------------
\* Entry of catbird (lines 33-57) and canard (lines 104-127)
\* ---------------------------------------------------------------------

\* lines 33-38 / 104-109: the sources random_state can resolve to on this call.
\* None: a fresh RandomState() in any state; int: RandomState(seed);
\* a RandomState instance: the caller's source, in the state it is in.
ResolveUnseeded(rs) ==
    IF rs.t \in {"int", "NoneType", "RandomState"} THEN {[s |-> s, pos |-> 0] : s \in Streams}
    ELSE {}
Resolve(rs) ==
    IF rs.t = "int" THEN {[s |-> SeedStream(rs.v), pos |-> 0]}
    ELSE IF rs.t \in {"NoneType", "RandomState"} THEN {[s |-> s, pos |-> 0] : s \in Streams}
    ELSE {}

\* type(x) == float and (x >= 0.0 and x <= 1.0)
InUnitNoUpper(x) == x.t = "float" /\ x.v >= 0
InUnit(x) == x.t = "float" /\ x.v >= 0 /\ x.v <= 1000

\* lst[x] for x >= 0: the element, or an IndexError when x is past the end
ListGetWrap(lst, x) == [ok |-> TRUE, v |-> lst[(x % Len(lst)) + 1]]
ListGet(lst, x) ==
    IF x < Len(lst) THEN [ok |-> TRUE, v |-> lst[x + 1]] ELSE [ok |-> FALSE, v |-> 0]

\* lines 33-49: the first check of catbird that fails, "" when all pass
CatbirdCheck ==
    IF Resolve(random_state) = {} THEN "AssertionError"
    ELSE IF ~(n_feat.t = "int" /\ n_feat.v > 1) THEN "AssertionError"
    ELSE IF feat_sig = <<>> THEN "ValueError"
    ELSE IF ~(Max(feat_sig) <= n_feat.v) THEN "AssertionError"
    ELSE IF ~InUnit(lmbd) THEN "AssertionError"
    ELSE IF ~InUnit(eps) THEN "AssertionError"
    ELSE ""

\* lines 104-120: the first check of canard that fails, "" when all pass
CanardCheck ==
    IF Resolve(random_state) = {} THEN "AssertionError"
    ELSE IF ~(n_feat.t = "int" /\ n_feat.v > 1) THEN "AssertionError"
    ELSE IF ~(n_cat.t = "int" /\ n_cat.v > 1) THEN "AssertionError"
    ELSE IF ~(lmbd.t = "int" /\ lmbd.v >= 1) THEN "AssertionError"
    ELSE IF ~InUnit(eps) THEN "AssertionError"
    ELSE ""

\* the number of arguments of the call that the checks reject
Count(cond) == IF cond THEN 1 ELSE 0
NFeatOk == n_feat.t = "int" /\ n_feat.v > 1
Rejected ==
    IF fn = "catbird"
    THEN Count(Resolve(random_state) = {})
         + Count(~NFeatOk)
         + Count(feat_sig = <<>> \/ (feat_sig # <<>> /\ NFeatOk /\ Max(feat_sig) > n_feat.v))
         + Count(~InUnit(lmbd))
         + Count(~InUnit(eps))
    ELSE Count(Resolve(random_state) = {})
         + Count(~NFeatOk)
         + Count(~(n_cat.t = "int" /\ n_cat.v > 1))
         + Count(~(lmbd.t = "int" /\ lmbd.v >= 1))
         + Count(~InUnit(eps))

InitCatbird ==
    /\ fn = "catbird"
    /\ n_feat \in NFeatArgs
    /\ feat_sig \in FeatSigArgs
    /\ n_cat = PyInt(0)
    /\ rate \in RateLists
    /\ lmbd \in CatbirdLmbdArgs
    /\ eps \in CatbirdEpsArgs
    /\ random_state \in RandomStateArgs

InitCanard ==
    /\ fn = "canard"
    /\ n_feat \in NFeatArgs
    /\ feat_sig = <<>>
    /\ n_cat \in NCatArgs
    /\ rate \in RateLists
    /\ lmbd \in CanardLmbdArgs
    /\ eps \in CanardEpsArgs
    /\ random_state \in RandomStateArgs

\* a call of one of the generators, with at most one argument that its checks reject
Init ==
    /\ InitCatbird \/ InitCanard
    /\ Rejected <= 1
    /\ gpc = "start"
    /\ GenLocalsInit
    /\ RateIdle

\* q = -1
QInitZero == 1 - 1
QInit == -1

Fail(e) ==
    /\ gpc' = "failed"
    /\ err' = e
    /\ gret' = <<>>

\* lines 33-57 and 104-127: resolve the source, check the arguments, initialise
GenEnter ==
    /\ gpc = "start"
    /\ LET e == IF fn = "catbird" THEN CatbirdCheck ELSE CanardCheck IN
         IF e = ""
         THEN /\ rng' \in Resolve(random_state)
              /\ X' = <<>> /\ y' = <<>> /\ origin' = <<>>
              /\ q' = QInit
              /\ i' = 0
              /\ gpc' = "cluster"
              /\ UNCHANGED <<err, gret>>
         ELSE /\ Fail(e)
              /\ UNCHANGED <<rng, X, y, origin, q, i>>
    /\ UNCHANGED <<gargs, j, W, idx, a, b, A_W_norm, noise, samples, log, call, first, rvars>>

\* ---------------------------------------------------------------------
\* catbird: the cluster loop (lines 59-73)
\* ---------------------------------------------------------------------

\* scipy.stats.norm.cdf(v / math.sqrt(f)) for an integer v in -f..f, in millionths
CdfTable ==
    << <<158655, 500000, 841344>>,
       <<78649, 239750, 500000, 760249, 921350>>,
       <<41632, 124106, 281851, 500000, 718148, 875893, 958367>>,
       <<22750, 66807, 158655, 308537, 500000, 691462, 841344, 933192, 977249>> >>

NormCdf(v, f) == CdfTable[f][v + f + 1]

\* (A @ W)[0][c] for the 1 x f matrix A and the f x f matrix W
RECURSIVE Dot(_, _, _, _)
Dot(A, M, c, r) == IF r = 0 THEN 0 ELSE A[1][r] * M[r][c] + Dot(A, M, c, r - 1)

\* discretize = np.vectorize(lambda x, thr: 1 if x < thr else 0); thr in permille
DiscretizeInverted(x, thr) == IF x > thr * 1000 THEN 1 ELSE 0
Discretize(x, thr) == IF x < thr * 1000 THEN 1 ELSE 0

\* result[idx] = values: position idx[t] of the row takes values[t]
AssignAtReplace(row, ix, values) == values
AssignAt(row, ix, values) ==
    [p \in 1..Len(row) |->
        IF \E t \in 1..Len(ix) : ix[t] = p - 1
        THEN values[CHOOSE t \in 1..Len(ix) : ix[t] = p - 1]
        ELSE row[p]]

Draw(c, ph, e) == [c |-> c, ph |-> ph, e |-> e]

\* lines 59-63: head of an iteration of `for i in range(len(rate))`
CatbirdCluster ==
    /\ fn = "catbird"
    /\ gpc = "cluster"
    /\ i < Len(rate)
    /\ IF ~ListGet(feat_sig, i).ok
       THEN /\ Fail("IndexError")
            /\ UNCHANGED <<W, idx, rng, log, q, j>>
       ELSE LET f == ListGet(feat_sig, i).v IN
            /\ W' = NormalMatrix(rng.s, rng.pos, f, f)
            /\ idx' = Choice(rng.s, rng.pos + f * f, n_feat.v, f)
            /\ rng' = [rng EXCEPT !.pos = @ + f * f + 2 * f]
            /\ log' = log \o <<Draw(i, 0, 0), Draw(i, 0, 0)>>
            /\ q' = q + 1
            /\ j' = 0
            /\ gpc' = "example"
            /\ UNCHANGED <<err, gret>>
    /\ UNCHANGED <<gargs, X, y, i, a, b, A_W_norm, noise, samples, origin, call, first, rvars>>

\* lines 64-73: one iteration of `for j in range(rate[i])`
CatbirdExample ==
    /\ fn = "catbird"
    /\ gpc = "example"
    /\ j < rate[i + 1]
    /\ LET f == ListGet(feat_sig, i).v
           A == NormalMatrix(rng.s, rng.pos, 1, f)
           A_W == [c \in 1..f |-> Dot(A, W, c, f)]
           cdf == [c \in 1..f |-> NormCdf(A_W[c], f)]
           result == Binomial(rng.s, rng.pos + f, eps.v, n_feat.v)
       IN  /\ A_W_norm' = cdf
           /\ noise' = result
           /\ X' = Append(X, AssignAt(result, idx, [c \in 1..f |-> Discretize(cdf[c], lmbd.v)]))
           /\ y' = Append(y, q)
           /\ origin' = Append(origin, i)
           /\ rng' = [rng EXCEPT !.pos = @ + f + 2 * n_feat.v]
           /\ log' = log \o <<Draw(i, 1, j), Draw(i, 1, j)>>
    /\ j' = j + 1
    /\ UNCHANGED <<gargs, q, i, W, idx, a, b, samples, gpc, err, gret, call, first, rvars>>

\* ---------------------------------------------------------------------
\* canard: the cluster loop (lines 126-142)
\* ---------------------------------------------------------------------

\* int(n_feat*(1-eps)), eps in permille
Controlled(n, e) == IntDiv(n * (1000 - e), 1000)

\* pd.cut(x, bins=bins, labels=cats)[0] with bins = [i / n_cat for i in 0..n_cat]:
\* the label c with bins[c] < x <= bins[c+1], NaN when x is in no bin
Cut(x, nc) ==
    LET hits == {c \in 0..(nc - 1) : c * SampleDen < x * nc /\ x * nc <= (c + 1) * SampleDen}
    IN  IF hits = {} THEN "NaN" ELSE CHOOSE c \in hits : TRUE

\* lines 135-137: a[i], b[i] = 1 + lmbd * random_sample() for the i of idx, in order
Shape(s, p, n, ix, lm, off) ==
    [x \in 1..n |->
        IF \E t \in 1..Len(ix) : ix[t] = x - 1
        THEN LET t == CHOOSE u \in 1..Len(ix) : ix[u] = x - 1
             IN  1000 + lm * Uniform(s, p + 4 * (t - 1) + off)
        ELSE 1000]

\* lines 129-137: head of an iteration of `for m in rate`
CanardCluster ==
    /\ fn = "canard"
    /\ gpc = "cluster"
    /\ i < Len(rate)
    /\ LET size == Controlled(n_feat.v, eps.v)
           ix == Choice(rng.s, rng.pos, n_feat.v, size)
       IN  /\ idx' = ix
           /\ a' = Shape(rng.s, rng.pos + 2 * size, n_feat.v, ix, lmbd.v, 0)
           /\ b' = Shape(rng.s, rng.pos + 2 * size, n_feat.v, ix, lmbd.v, 2)
           /\ rng' = [rng EXCEPT !.pos = @ + 2 * size + 4 * size]
           /\ log' = log \o [t \in 1..(1 + 2 * size) |-> Draw(i, 0, 0)]
    /\ q' = q + 1
    /\ j' = 0
    /\ gpc' = "example"
    /\ UNCHANGED <<gargs, X, y, i, W, A_W_norm, noise, samples, origin, err, gret, call,
                   first, rvars>>

\* lines 139-142: one iteration of `for _ in range(m)`
CanardExample ==
    /\ fn = "canard"
    /\ gpc = "example"
    /\ j < rate[i + 1]
    /\ LET smp == [p \in 1..n_feat.v |-> Beta(rng.s, rng.pos + 3 * (p - 1))]
       IN  /\ samples' = smp
           /\ X' = Append(X, [p \in 1..n_feat.v |-> Cut(smp[p], n_cat.v)])
           /\ y' = Append(y, q)
           /\ origin' = Append(origin, i)
           /\ rng' = [rng EXCEPT !.pos = @ + 3 * n_feat.v]
           /\ log' = log \o [p \in 1..n_feat.v |-> Draw(i, 1, j)]
    /\ j' = j + 1
    /\ UNCHANGED <<gargs, q, i, W, idx, a, b, A_W_norm, noise, gpc, err, gret, call, first,
                   rvars>>

\* ---------------------------------------------------------------------
\* Both generators: end of the loops and return
\* ---------------------------------------------------------------------

\* the inner loop is exhausted: next iteration of the outer loop
EndCluster ==
    /\ gpc = "example"
    /\ j >= rate[i + 1]
    /\ i' = i + 1
    /\ gpc' = "cluster"
    /\ UNCHANGED <<gargs, rng, X, y, q, j, W, idx, a, b, A_W_norm, noise, samples, origin,
                   log, err, gret, call, first, rvars>>

\* lines 75-78 / 144-147: X and y become int64 arrays and are returned
GenReturn ==
    /\ gpc = "cluster"
    /\ i >= Len(rate)
    /\ gret' = <<X, y>>
    /\ gpc' = "done"
    /\ UNCHANGED <<gargs, rng, X, y, q, i, j, W, idx, a, b, A_W_norm, noise, samples, origin,
                   log, err, call, first, rvars>>

\* The caller invokes the generator a second time with the same integer seed
\* and the same other arguments.
Reinvoke ==
    /\ gpc \in {"done", "failed"}
    /\ call = 1
    /\ random_state.t = "int"
    /\ first' = [pc |-> gpc, err |-> err, ret |-> gret]
    /\ call' = 2
    /\ gpc' = "start"
    /\ rng' = NoRng
    /\ X' = <<>> /\ y' = <<>> /\ q' = 0
    /\ i' = 0 /\ j' = 0
    /\ W' = <<>> /\ idx' = <<>> /\ a' = <<>> /\ b' = <<>>
    /\ A_W_norm' = <<>> /\ noise' = <<>> /\ samples' = <<>>
    /\ origin' = <<>>
    /\ log' = <<>>
    /\ err' = ""
    /\ gret' = <<>>
    /\ UNCHANGED <<gargs, rvars>>

Next ==
    \/ GenEnter
    \/ CatbirdCluster
    \/ CatbirdExample
    \/ CanardCluster
    \/ CanardExample
    \/ EndCluster
    \/ GenReturn
    \/ Reinvoke

Spec == Init /\ [][Next]_vars

\* ---------------------------------------------------------------------
\* get_rate alone
\* ---------------------------------------------------------------------
GenIdle ==
    /\ fn = "none"
    /\ n_feat = PyInt(0) /\ feat_sig = <<>> /\ n_cat = PyInt(0) /\ rate = <<>>
    /\ lmbd = PyInt(0) /\ eps = PyInt(0) /\ random_state = PyInt(0)
    /\ gpc = "idle"
    /\ GenLocalsInit

InitRateSpec == InitRate /\ GenIdle

NextRate ==
    \/ RateCheck /\ UNCHANGED gvars
    \/ RateLoop /\ UNCHANGED gvars
    \/ RateFinish /\ UNCHANGED gvars

SpecRate == InitRateSpec /\ [][NextRate]_vars

\* =====================================================================
\* Properties of get_rate (checked under SpecRate)
\* =====================================================================

\* the plan the floor(remaining / j) iteration defines, for j = jj..last
RECURSIVE DecliningFrom(_, _, _)
DecliningFrom(remaining, jj, last) ==
    IF jj > last THEN <<>>
    ELSE <<remaining \div jj>> \o DecliningFrom(remaining - (remaining \div jj), jj + 1, last)

DecliningOf(NN, kk) == DecliningFrom(NN, 2, kk + 1)
UniformOf(NN, kk) == [t \in 1..kk |-> Sum(DecliningOf(NN, kk)) \div kk]

RateEnded == rpc \in {"done", "failed"}

\* C1: a call of get_rate either fails and returns nothing, or returns two plans
\* of length k whose minimum entries are both >= n_min; get_rate(10, 9, 5) fails.
C1_Postcondition ==
    /\ rpc = "done" =>
         /\ Len(rret) = 2
         /\ \A t \in 1..2 : Len(rret[t]) = k.v /\ Min(rret[t]) >= n_min
         /\ Min(DecliningOf(N.v, k.v)) >= n_min
         /\ Min(UniformOf(N.v, k.v)) >= n_min
    /\ rpc # "done" => rret = <<>>
    /\ (RateEnded /\ ~(N.t = "int" /\ N.v > 1 /\ k.t = "int" /\ k.v > 1)) => rpc = "failed"
    /\ (RateEnded /\ N = PyInt(10) /\ k = PyInt(9) /\ n_min = 5) => rpc = "failed"

\* C1 witness: a call that passes the postcondition exactly at the threshold
C1_Witness == rpc = "done" /\ n_min = 1 /\ Min(rate_c) = 1 /\ Min(rate_s) > 1

\* C2 as stated: the first returned plan is the declining one, the second the
\* uniform one.
C2_DecliningFirst ==
    rpc = "done" =>
        /\ rret[1] = DecliningOf(N.v, k.v)
        /\ rret[2] = UniformOf(N.v, k.v)

\* C2 amended: the first returned plan is the uniform one and the second the
\* declining one built by the floor(remaining / j) iteration, each of length k.
C2_UniformFirst ==
    rpc = "done" =>
        /\ rret[1] = UniformOf(N.v, k.v)
        /\ rret[2] = DecliningOf(N.v, k.v)
        /\ Len(rret[1]) = k.v
        /\ Len(rret[2]) = k.v

\* C2 witness: a successful call whose two plans differ
C2_Witness == rpc = "done" /\ rret[1] # rret[2] /\ k.v = 3

\* C3: the declining plan is non-increasing, its entry for step j is
\* floor(remaining / j) with remaining = N minus the entries already assigned,
\* and every entry of the uniform plan is floor(sum(declining) / k).
C3_PlanShape ==
    /\ \A t \in 1..Len(rate_c) :
         /\ rate_c[t] = (N.v - Sum(SubSeq(rate_c, 1, t - 1))) \div (t + 1)
         /\ t > 1 => rate_c[t] <= rate_c[t - 1]
    /\ rpc = "done" =>
         /\ Len(rate_c) = k.v
         /\ Len(rate_s) = k.v
         /\ \A t \in 1..k.v : rate_s[t] = Sum(rate_c) \div k.v

\* C3 witness: a strictly declining plan whose total is not a multiple of k
C3_Witness ==
    /\ rpc = "done"
    /\ rate_c[2] < rate_c[1]
    /\ Sum(rate_c) % k.v # 0

\* C10: during and after the loop the budget is N minus the entries assigned,
\* never negative, no entry is negative, and neither plan sums to more than N.
C10_Budget ==
    /\ (rpc = "loop" \/ rate_c # <<>>) =>
         /\ resto = N.v - Sum(rate_c)
         /\ resto >= 0
         /\ \A t \in 1..Len(rate_c) : rate_c[t] >= 0
         /\ Sum(rate_c) <= N.v
    /\ rate_s # <<>> =>
         /\ Sum(rate_s) = k.v * (Sum(rate_c) \div k.v)
         /\ Sum(rate_s) <= Sum(rate_c)
         /\ Sum(rate_s) <= N.v

\* C10 witness: a finished call that leaves part of the budget in both plans
C10_Witness ==
    /\ rpc = "done"
    /\ resto > 0
    /\ Sum(rate_s) < Sum(rate_c)
    /\ Len(rate_c) >= 3

\* =====================================================================
\* Properties of catbird and canard (checked under Spec)
\* =====================================================================

Val(x) == IF x.t = "int" THEN x.v * 1000 ELSE x.v

\* first row index (1-based, exclusive) of the block of cluster c
BlockStart(c) == Sum(SubSeq(rate, 1, c))

\* C4: y is non-decreasing, takes exactly the values 0..len(rate)-1, value c
\* fills the c-th contiguous block of rate[c] rows, and every row was generated
\* under the cluster its label names.
C4_Labels ==
    gpc = "done" =>
        LET yy == gret[2] IN
        /\ \A t \in 1..(Len(yy) - 1) : yy[t] <= yy[t + 1]
        /\ {yy[t] : t \in 1..Len(yy)} = 0..(Len(rate) - 1)
        /\ \A c \in 0..(Len(rate) - 1) :
             /\ Cardinality({t \in 1..Len(yy) : yy[t] = c}) = rate[c + 1]
             /\ \A t \in 1..Len(yy) : yy[t] = c <=> (BlockStart(c) < t /\ t <= BlockStart(c + 1))
        /\ \A t \in 1..Len(yy) : origin[t] = yy[t]

\* C4 witness: a dataset of two clusters of different sizes
C4_Witness == gpc = "done" /\ rate = <<1, 2>> /\ gret[2] = <<0, 1, 1>>

\* C5: the dataset has sum(rate) rows and as many labels, and every row has
\* n_feat entries.
C5_Shape ==
    gpc = "done" =>
        /\ Len(gret[1]) = Sum(rate)
        /\ Len(gret[2]) = Sum(rate)
        /\ \A t \in 1..Len(gret[1]) : Len(gret[1][t]) = n_feat.v

\* C5 witness: catbird with a cluster whose index subset is smaller than n_feat
\* and a second cluster whose subset overlaps it
C5_Witness ==
    /\ gpc = "done"
    /\ fn = "catbird"
    /\ feat_sig = <<1, 2>>
    /\ Len(gret[1]) = 3

IdxPositions == {idx[t] + 1 : t \in 1..Len(idx)}

Rank(d) == <<d.c, d.ph, d.e>>
RankLeq(u, v) ==
    \/ u[1] < v[1]
    \/ u[1] = v[1] /\ u[2] < v[2]
    \/ u[1] = v[1] /\ u[2] = v[2] /\ u[3] <= v[3]

\* C7: a second invocation with the same integer seed and arguments ends as the
\* first did, with the same (X, y); draws are made cluster by cluster, the
\* structural ones of a cluster before its per-example ones, examples in order.
C7_Determinism ==
    /\ (call = 2 /\ gpc \in {"done", "failed"}) =>
         first = [pc |-> gpc, err |-> err, ret |-> gret]
    /\ \A u \in 1..(Len(log) - 1) : RankLeq(Rank(log[u]), Rank(log[u + 1]))
    /\ gpc \in {"cluster", "example", "done"} =>
         /\ Len(log) > 0 => log[Len(log)].c <= i
         /\ \A c \in 0..(i - 1) :
              \A e \in 0..(rate[c + 1] - 1) : \E u \in 1..Len(log) : log[u] = Draw(c, 1, e)
         /\ \A c \in 0..(i - 1) : \E u \in 1..Len(log) : log[u] = Draw(c, 0, 0)

\* C7 witness: a repeated seeded invocation returned a dataset of several rows
\* that depends on the draws
C7_Witness ==
    /\ call = 2
    /\ gpc = "done"
    /\ fn = "catbird"
    /\ eps.v = 500
    /\ Len(gret[1]) >= 2
    /\ \E t \in 1..Len(gret[1]) : \E p \in 1..n_feat.v : gret[1][t][p] = 1
    /\ \E t \in 1..Len(gret[1]) : \E p \in 1..n_feat.v : gret[1][t][p] = 0

GenEnded == gpc \in {"done", "failed"}

OutsideUnit(x) == Val(x) < 0 \/ Val(x) > 1000

InvalidArgs ==
    IF fn = "catbird"
    THEN \/ Val(n_feat) <= 1000
         \/ \E t \in 1..Len(feat_sig) : feat_sig[t] * 1000 > Val(n_feat)
         \/ OutsideUnit(lmbd)
         \/ OutsideUnit(eps)
    ELSE \/ Val(n_feat) <= 1000
         \/ Val(n_cat) <= 1000
         \/ Val(lmbd) < 1000
         \/ OutsideUnit(eps)

\* C9: a call with an invalid argument fails before any row or label is
\* appended and before any draw; whatever the arguments, a call returns either
\* nothing (with an error) or the complete (X, y).
C9_NoPartialResult ==
    /\ (fn # "none" /\ gpc # "start" /\ InvalidArgs) =>
         /\ gpc = "failed"
         /\ err # ""
         /\ X = <<>>
         /\ y = <<>>
         /\ rng.pos = 0
         /\ log = <<>>
         /\ gret = <<>>
    /\ gpc = "failed" => gret = <<>> /\ err # ""
    /\ gret # <<>> =>
         /\ gpc = "done"
         /\ err = ""
         /\ Len(gret[1]) = Sum(rate)
         /\ Len(gret[2]) = Sum(rate)

\* C9 witness: canard rejected an eps above 1 handed a caller's random source
C9_Witness ==
    /\ fn = "canard"
    /\ gpc = "failed"
    /\ random_state.t = "RandomState"
    /\ eps = PyFloat(1500)
    /\ n_feat = PyInt(2)
    /\ n_cat = PyInt(2)
    /\ lmbd = PyInt(2)
    /\ rng.pos = 0

====
